---------------------------- MODULE Spec2Model ----------------------------
(***************************************************************************)
(* A model of data-documentor.py: the column profiler analyze_column, the  *)
(* Markdown renderer generate_markdown_report and the driver main.         *)
(*                                                                         *)
(* Text is modelled as a sequence of one-character strings, so that        *)
(* lower(), strip(), startswith(), replace() and json.loads() are computed *)
(* character by character.  A cell of a column is a record                 *)
(*     [t |-> kind, hi |-> .., lo |-> .., h |-> has a fractional part,     *)
(*      s |-> text]                                                        *)
(* with kind "null" (NaN / None / NaT), "num", "str", "obj" (a non-str     *)
(* Python object of an object column), "ts" (a timestamp) or "td" (a       *)
(* timedelta).  The program's numbers go beyond 32 bits, so a numeric      *)
(* cell stands for hi * 100000 + lo (hi and lo of the same sign,           *)
(* |lo| < 100000), plus 1/2 when h holds.                                  *)
(***************************************************************************)
EXTENDS Integers, Sequences, FiniteSets, TLC

(***************************************************************************)
(* Bounds of the model.                                                    *)
(***************************************************************************)
\* longest hand-enumerated part of a column
MaxShort == 2
\* longest run of pairwise distinct filler cells put in front of it
MaxRun == 21
\* most columns of a data file
MaxCols == 2
\* most rows of a description file
MaxDescRows == 1

(***************************************************************************)
(* Program constants.                                                      *)
(***************************************************************************)
HeadLen == 10
UniqueThreshold == 20
SampleMax == 5
\* "No description provided."
NoDescription ==
    <<"N","o"," ","d","e","s","c","r","i","p","t","i","o","n"," ",
      "p","r","o","v","i","d","e","d",".">>

(***************************************************************************)
(* Python str operations.                                                  *)
(***************************************************************************)
UpperChars == <<"A","B","C","D","E","F","G","H","I","J","K","L","M",
                "N","O","P","Q","R","S","T","U","V","W","X","Y","Z">>

LowerChars == <<"a","b","c","d","e","f","g","h","i","j","k","l","m",
                "n","o","p","q","r","s","t","u","v","w","x","y","z">>

LowerChar(c) ==
    IF \E k \in DOMAIN UpperChars : UpperChars[k] = c
    THEN LowerChars[CHOOSE k \in DOMAIN UpperChars : UpperChars[k] = c]
    ELSE c

\* str.lower()
RECURSIVE lower(_)
lower(s) == IF s = <<>> THEN <<>> ELSE <<LowerChar(Head(s))>> \o lower(Tail(s))

\* sub in s
contains(sub, s) ==
    \E i \in 1..(Len(s) - Len(sub) + 1) : SubSeq(s, i, i + Len(sub) - 1) = sub

\* s.replace(" ", "-")
RECURSIVE replace_space(_)
replace_space(s) ==
    IF s = <<>> THEN <<>>
    ELSE <<IF Head(s) = " " THEN "-" ELSE Head(s)>> \o replace_space(Tail(s))

Whitespace == {" ", "\t", "\n", "\r"}

\* str.strip()
strip(s) ==
    LET keep == {i \in DOMAIN s : s[i] \notin Whitespace}
    IN  IF keep = {} THEN <<>>
        ELSE SubSeq(s, CHOOSE i \in keep : \A j \in keep : i <= j,
                       CHOOSE i \in keep : \A j \in keep : j <= i)

startswith(s, c) == Len(s) >= 1 /\ s[1] = c

endswith(s, c) == Len(s) >= 1 /\ s[Len(s)] = c

(***************************************************************************)
(* json.loads, for documents made of objects, arrays, strings without      *)
(* escapes and unsigned integers.  The parsed value is kept as the         *)
(* document's significant characters (whitespace between tokens dropped).  *)
(***************************************************************************)
Digits == {"0","1","2","3","4","5","6","7","8","9"}

ParseFail == [ok |-> FALSE, pos |-> 0, val |-> <<>>]

ParseOk(p, v) == [ok |-> TRUE, pos |-> p, val |-> v]

RECURSIVE SkipWs(_, _)
SkipWs(s, i) ==
    IF i <= Len(s) /\ s[i] \in Whitespace THEN SkipWs(s, i + 1) ELSE i

\* s[i] is the opening quote
ParseString(s, i) ==
    LET closing == {j \in (i+1)..Len(s) : s[j] = "\""}
    IN  IF closing = {} THEN ParseFail
        ELSE LET j == CHOOSE x \in closing : \A y \in closing : x <= y
             IN  IF \E k \in (i+1)..(j-1) : s[k] = "\\" THEN ParseFail
                 ELSE ParseOk(j + 1, SubSeq(s, i, j))

RECURSIVE DigitsEnd(_, _)
DigitsEnd(s, i) ==
    IF i <= Len(s) /\ s[i] \in Digits THEN DigitsEnd(s, i + 1) ELSE i

\* s[i] is a digit; a leading 0 is a number of its own
ParseNumber(s, i) ==
    LET j == IF s[i] = "0" THEN i + 1 ELSE DigitsEnd(s, i)
    IN  ParseOk(j, SubSeq(s, i, j - 1))

RECURSIVE ParseValue(_, _)
RECURSIVE ParseElems(_, _, _)
RECURSIVE ParseMembers(_, _, _)

\* i is at the first character of the value
ParseValue(s, i) ==
    IF i > Len(s) THEN ParseFail
    ELSE CASE s[i] = "{" ->
                LET j == SkipWs(s, i + 1)
                IN  IF j <= Len(s) /\ s[j] = "}" THEN ParseOk(j + 1, <<"{", "}">>)
                    ELSE ParseMembers(s, j, <<"{">>)
           [] s[i] = "[" ->
                LET j == SkipWs(s, i + 1)
                IN  IF j <= Len(s) /\ s[j] = "]" THEN ParseOk(j + 1, <<"[", "]">>)
                    ELSE ParseElems(s, j, <<"[">>)
           [] s[i] = "\"" -> ParseString(s, i)
           [] s[i] \in Digits -> ParseNumber(s, i)
           [] OTHER -> ParseFail

ParseElems(s, i, acc) ==
    LET v == ParseValue(s, i)
    IN  IF ~v.ok THEN ParseFail
        ELSE LET j == SkipWs(s, v.pos)
             IN  IF j > Len(s) THEN ParseFail
                 ELSE IF s[j] = ","
                      THEN ParseElems(s, SkipWs(s, j + 1), acc \o v.val \o <<",">>)
                 ELSE IF s[j] = "]" THEN ParseOk(j + 1, acc \o v.val \o <<"]">>)
                 ELSE ParseFail

ParseMembers(s, i, acc) ==
    IF i > Len(s) \/ s[i] # "\"" THEN ParseFail
    ELSE LET k == ParseString(s, i)
         IN  IF ~k.ok THEN ParseFail
             ELSE LET c == SkipWs(s, k.pos)
                  IN  IF c > Len(s) \/ s[c] # ":" THEN ParseFail
                      ELSE LET v == ParseValue(s, SkipWs(s, c + 1))
                           IN  IF ~v.ok THEN ParseFail
                               ELSE LET j == SkipWs(s, v.pos)
                                        a == acc \o k.val \o <<":">> \o v.val
                                    IN  IF j > Len(s) THEN ParseFail
                                        ELSE IF s[j] = ","
                                             THEN ParseMembers(s, SkipWs(s, j + 1),
                                                               a \o <<",">>)
                                        ELSE IF s[j] = "}" THEN ParseOk(j + 1, a \o <<"}">>)
                                        ELSE ParseFail

\* json.loads(s): [ok |-> FALSE, ...] stands for the exception it raises
json_loads(s) ==
    LET v == ParseValue(s, SkipWs(s, 1))
    IN  IF v.ok /\ SkipWs(s, v.pos) = Len(s) + 1 THEN v ELSE ParseFail

(***************************************************************************)
(* Cells.                                                                  *)
(***************************************************************************)
Cell(t, hi, lo, h, s) == [t |-> t, hi |-> hi, lo |-> lo, h |-> h, s |-> s]

Null == Cell("null", 0, 0, FALSE, <<>>)

\* the integer hi * 100000 + lo
Big(hi, lo) == Cell("num", hi, lo, FALSE, <<>>)

\* the integer n, -100000 < n < 100000
Num(n) == Big(0, n)

\* n + 1/2
Half(n) == Cell("num", 0, n, TRUE, <<>>)

Str(s) == Cell("str", 0, 0, FALSE, s)

\* a non-str Python object of an object column: the Python int k
Obj(k) == Cell("obj", 0, k, FALSE, <<>>)

\* the k-th instant
Ts(k) == Cell("ts", 0, k, FALSE, <<>>)

\* the k-th duration
Td(k) == Cell("td", 0, k, FALSE, <<>>)

\* a < b on numbers
Lt(a, b) ==
    \/ a.hi < b.hi
    \/ a.hi = b.hi /\ a.lo < b.lo
    \/ a.hi = b.hi /\ a.lo = b.lo /\ ~a.h /\ b.h

\* a >= b and a <= b as Python evaluates them: False when a is NaN
Ge(a, b) == a.t = "num" /\ ~Lt(a, b)

Le(a, b) == a.t = "num" /\ ~Lt(b, a)

SmallIntMin == Num(-32768)

SmallIntMax == Num(32767)

\* -2147483648
IntMin == Big(-21474, -83648)

\* 2147483647
IntMax == Big(21474, 83647)

(***************************************************************************)
(* pandas: a series is [dtype |-> its dtype, values |-> its cells].  The   *)
(* dtype alone decides the three dtype predicates: bool counts as numeric, *)
(* object as string-like whatever its cells are, timedelta64 as neither.   *)
(* An int64 or bool series has no null cell.                               *)
(***************************************************************************)
is_numeric_dtype(series) == series.dtype \in {"int64", "float64", "bool"}

is_string_dtype(series) == series.dtype = "object"

is_datetime64_any_dtype(series) == series.dtype = "datetime64[ns]"

\* series.isna().sum()
isna_sum(vals) == Cardinality({i \in DOMAIN vals : vals[i].t = "null"})

\* the positions of the non-null cells among the positions i..Len(vals), in order
RECURSIVE notna_from(_, _)
notna_from(vals, i) ==
    IF i > Len(vals) THEN <<>>
    ELSE IF vals[i].t # "null" THEN <<i>> \o notna_from(vals, i + 1)
    ELSE notna_from(vals, i + 1)

\* the index of series.dropna()
notna_index(vals) == notna_from(vals, 1)

notna(c) == c.t # "null"

\* series.dropna()
dropna(vals) == SelectSeq(vals, notna)

\* .head(n)
head(vals, n) == SubSeq(vals, 1, IF Len(vals) < n THEN Len(vals) ELSE n)

\* .unique(): the distinct cells in the order they are first seen
RECURSIVE unique_from(_, _, _)
unique_from(vals, i, seen) ==
    IF i > Len(vals) THEN seen
    ELSE IF \E k \in DOMAIN seen : seen[k] = vals[i] THEN unique_from(vals, i + 1, seen)
    ELSE unique_from(vals, i + 1, Append(seen, vals[i]))

unique(vals) == unique_from(vals, 1, <<>>)

RECURSIVE Insert(_, _)
Insert(x, s) ==
    IF s = <<>> THEN <<x>>
    ELSE IF Lt(x, Head(s)) THEN <<x>> \o s
    ELSE <<Head(s)>> \o Insert(x, Tail(s))

\* sorted() left out: the list stays in first-seen order
sorted_left_out(s) == s

\* sorted(list)
RECURSIVE sorted(_)
sorted(s) == IF s = <<>> THEN <<>> ELSE Insert(Head(s), sorted(Tail(s)))

\* series.dropna().apply(lambda x: float(x).is_integer()).all()
all_is_integer(vals) == \A i \in DOMAIN vals : vals[i].t = "null" \/ ~vals[i].h

\* series.min(): NaN when there is no non-null cell
series_min(vals) ==
    LET nn == dropna(vals)
    IN  IF nn = <<>> THEN Null
        ELSE nn[CHOOSE i \in DOMAIN nn : \A j \in DOMAIN nn : ~Lt(nn[j], nn[i])]

\* series.max()
series_max(vals) ==
    LET nn == dropna(vals)
    IN  IF nn = <<>> THEN Null
        ELSE nn[CHOOSE i \in DOMAIN nn : \A j \in DOMAIN nn : ~Lt(nn[i], nn[j])]

(***************************************************************************)
(* The values of Additional Info.  An element [box |-> type, v |-> cell]   *)
(* keeps the Python type the cell has been boxed to; an entry is           *)
(* [key, shape, items] with shape "scalar", "list" or "dict".              *)
(***************************************************************************)
Elem(box, v) == [box |-> box, v |-> v]

Entry(key, shape, items) == [key |-> key, shape |-> shape, items |-> items]

\* the type of an element of series.unique()
numpy_box(dtype, v) ==
    CASE dtype = "int64" -> "np.int64"
      [] dtype = "float64" -> "np.float64"
      [] dtype = "bool" -> "np.bool_"
      [] dtype = "datetime64[ns]" -> "np.datetime64"
      [] dtype = "timedelta64[ns]" -> "np.timedelta64"
      [] OTHER -> IF v.t = "str" THEN "str" ELSE "int"

\* the type of an element of series.tolist()
tolist_box(dtype, v) ==
    CASE dtype = "int64" -> "int"
      [] dtype = "float64" -> "float"
      [] dtype = "bool" -> "bool"
      [] dtype = "datetime64[ns]" -> "Timestamp"
      [] dtype = "timedelta64[ns]" -> "Timedelta"
      [] OTHER -> IF v.t = "str" THEN "str" ELSE "int"

\* series.describe().to_dict(), its count, min and max
describe(vals) ==
    <<Elem("float", Num(Len(dropna(vals)))),
      Elem("float", series_min(vals)),
      Elem("float", series_max(vals))>>

(***************************************************************************)
(* analyze_column.                                                         *)
(***************************************************************************)
\* dict.get(key, default)
dict_get(d, key, default) == IF key \in DOMAIN d THEN d[key] ELSE default

\* the candidate test of the sniffing loop
is_bracketed(val_strip) ==
    \/ startswith(val_strip, "{") /\ endswith(val_strip, "}")
    \/ startswith(val_strip, "[") /\ endswith(val_strip, "]")

\* the sniffing loop over vals, from its i-th value on
RECURSIVE scan_json(_, _)
scan_json(vals, i) ==
    IF i > Len(vals) THEN [nested_flag |-> FALSE, sample_json |-> <<>>]
    ELSE IF vals[i].t = "str" /\ is_bracketed(strip(vals[i].s))
         THEN LET parsed == json_loads(strip(vals[i].s))
              IN  IF parsed.ok
                  THEN [nested_flag |-> TRUE, sample_json |-> parsed.val]
                  ELSE scan_json(vals, i + 1)
         ELSE scan_json(vals, i + 1)

\* the sniffing loop let loose on every non-null cell
sniffed_unbounded(vals) == dropna(vals)

sniffed(vals) == head(dropna(vals), HeadLen)

detect_nested(series) ==
    IF is_string_dtype(series) THEN scan_json(sniffed(series.values), 1)
    ELSE [nested_flag |-> FALSE, sample_json |-> <<>>]

\* the test on the number of distinct values alone
is_boolean_any_pair(unique_values) == Len(unique_values) = 2

\* num_unique == 2 and set(unique_values) <= {0, 1}
is_boolean(unique_values) ==
    /\ Len(unique_values) = 2
    /\ \A i \in DOMAIN unique_values : unique_values[i] \in {Num(0), Num(1)}

\* the range tests with the upper ends excluded
recommend_int_exclusive(min_val, max_val) ==
    IF Ge(min_val, SmallIntMin) /\ Lt(max_val, SmallIntMax) THEN "smallint"
    ELSE IF Ge(min_val, IntMin) /\ Lt(max_val, IntMax) THEN "int"
    ELSE "bigint"

recommend_int(min_val, max_val) ==
    IF Ge(min_val, SmallIntMin) /\ Le(max_val, SmallIntMax) THEN "smallint"
    ELSE IF Ge(min_val, IntMin) /\ Le(max_val, IntMax) THEN "int"
    ELSE "bigint"

\* the threshold test with <= for <
is_enumerable_inclusive(num_unique) == num_unique <= UniqueThreshold

is_enumerable(num_unique) == num_unique < UniqueThreshold

Classified(cat, rec, info) == [cat |-> cat, rec |-> rec, info |-> info]

\* list(unique_values): each cell with its numpy type
RECURSIVE boxed_list(_, _)
boxed_list(dtype, vals) ==
    IF vals = <<>> THEN <<>>
    ELSE <<Elem(numpy_box(dtype, Head(vals)), Head(vals))>>
         \o boxed_list(dtype, Tail(vals))

classify_numeric(series) ==
    LET unique_values == unique(dropna(series.values))
        num_unique == Len(unique_values)
    IN  IF is_boolean(unique_values) THEN Classified("Boolean", "bool", <<>>)
        ELSE IF all_is_integer(series.values)
        THEN LET rec == recommend_int(series_min(series.values),
                                      series_max(series.values))
             IN  IF is_enumerable(num_unique)
                 THEN Classified("Discrete Numeric", rec,
                        <<Entry("Unique values", "list",
                                boxed_list(series.dtype, sorted(unique_values)))>>)
                 ELSE Classified("Quantitative (Discrete)", rec,
                        <<Entry("Summary", "dict", describe(series.values))>>)
        ELSE Classified("Quantitative (Continuous)", "float",
                        <<Entry("Summary", "dict", describe(series.values))>>)

classify_string(series) ==
    LET unique_values == unique(dropna(series.values))
        num_unique == Len(unique_values)
    IN  IF is_enumerable(num_unique)
        THEN Classified("Categorical", "category",
               <<Entry("Unique values", "list",
                       boxed_list(series.dtype, unique_values))>>)
        ELSE Classified("Text", "text",
               <<Entry("Unique count", "scalar", <<Elem("int", Num(num_unique))>>)>>)

\* the fallback with a fixed type name instead of the dtype
classify_other_fixed(series) ==
    IF is_datetime64_any_dtype(series) THEN Classified("Datetime", "datetime", <<>>)
    ELSE Classified("Unknown", "unknown", <<>>)

classify_other(series) ==
    IF is_datetime64_any_dtype(series) THEN Classified("Datetime", "datetime", <<>>)
    ELSE Classified("Unknown", series.dtype, <<>>)

classify(series) ==
    LET nested == detect_nested(series)
    IN  IF nested.nested_flag
        THEN Classified("Nested JSON", series.dtype,
               <<Entry("Sample JSON",
                       IF Head(nested.sample_json) = "{" THEN "dict" ELSE "list",
                       <<Elem("json", Str(nested.sample_json))>>)>>)
        ELSE IF is_numeric_dtype(series) THEN classify_numeric(series)
        ELSE IF is_string_dtype(series) THEN classify_string(series)
        ELSE classify_other(series)

\* the name test without lower()
wants_samples_cased(data_category, col_name) ==
    data_category # "Categorical" \/ contains(<<"i", "d">>, col_name)

\* (data_category != "Categorical") or ("id" in col_name.lower())
wants_samples(data_category, col_name) ==
    data_category # "Categorical" \/ contains(<<"i", "d">>, lower(col_name))

sample_count(vals) ==
    IF SampleMax < Len(dropna(vals)) THEN SampleMax ELSE Len(dropna(vals))

\* The outcomes of the random draw: the draw rnd takes the non-null cells
\* in cyclic order from the one of rank rnd on.
Draws(vals) == IF dropna(vals) = <<>> THEN {1} ELSE 1..Len(dropna(vals))

\* the positions non_null_values.sample(n=sample_count) takes under rnd
RECURSIVE sample_from(_, _, _, _)
sample_from(ix, rnd, i, k) ==
    IF i > k THEN <<>>
    ELSE <<ix[((rnd - 1 + i - 1) % Len(ix)) + 1]>>
         \o sample_from(ix, rnd, i + 1, k)

sample(vals, rnd) == sample_from(notna_index(vals), rnd, 1, sample_count(vals))

\* .tolist(): the cells at the positions picked, each with its Python type
RECURSIVE tolist(_, _)
tolist(series, picked) ==
    IF picked = <<>> THEN <<>>
    ELSE <<Elem(tolist_box(series.dtype, series.values[Head(picked)]),
                series.values[Head(picked)])>>
         \o tolist(series, Tail(picked))

random_samples(series, rnd) == tolist(series, sample(series.values, rnd))

analyze_column(col_name, series, desc_dict, rnd) ==
    LET c == classify(series)
        missing == <<Entry("Missing values", "scalar",
                           <<Elem("int", Num(isna_sum(series.values)))>>)>>
        samples ==
            IF wants_samples(c.cat, col_name) /\ dropna(series.values) # <<>>
            THEN <<Entry("Random Samples", "list", random_samples(series, rnd))>>
            ELSE <<>>
    IN  [FieldName |-> col_name,
         Definition |-> dict_get(desc_dict, col_name, NoDescription),
         CurrentDataType |-> series.dtype,
         RecommendedDataType |-> c.rec,
         DataCategory |-> c.cat,
         AdditionalInfo |-> missing \o c.info \o samples]

(***************************************************************************)
(* generate_markdown_report.  The document is the sequence of the pieces   *)
(* written to the output file.                                             *)
(***************************************************************************)
Piece(kind, name, anchor, key, items) ==
    [kind |-> kind, name |-> name, anchor |-> anchor, key |-> key, items |-> items]

convert_to_serializable(e) ==
    IF e.box \in {"np.int64", "np.int32", "np.int16", "np.int8"} THEN Elem("int", e.v)
    ELSE IF e.box \in {"np.float64", "np.float32"} THEN Elem("float", e.v)
    ELSE e

RECURSIVE convert_all(_)
convert_all(items) ==
    IF items = <<>> THEN <<>>
    ELSE <<convert_to_serializable(Head(items))>> \o convert_all(Tail(items))

\* whether json.dumps accepts the element; it raises TypeError otherwise
json_dumps_ok(e) == e.box \in {"int", "float", "str", "bool", "json"}

\* field_name.lower().replace(" ", "-")
anchor_of(field_name) == replace_space(lower(field_name))

toc_line(res) == Piece("toc", res.FieldName, anchor_of(res.FieldName), "", <<>>)

RECURSIVE toc_lines(_)
toc_lines(results) ==
    IF results = <<>> THEN <<>>
    ELSE <<toc_line(Head(results))>> \o toc_lines(Tail(results))

\* the bullets of one Additional Info, from its i-th entry on; ok is FALSE
\* when json.dumps raises, and pieces are the bullets written before it
RECURSIVE write_info(_, _, _)
write_info(info, i, acc) ==
    IF i > Len(info) THEN [ok |-> TRUE, pieces |-> acc]
    ELSE LET e == info[i]
         IN  IF e.shape \in {"dict", "list"}
             THEN LET value == convert_all(e.items)
                  IN  IF \A k \in DOMAIN value : json_dumps_ok(value[k])
                      THEN write_info(info, i + 1,
                             Append(acc, Piece("block", <<>>, <<>>, e.key, value)))
                      ELSE [ok |-> FALSE, pieces |-> acc]
             ELSE write_info(info, i + 1,
                    Append(acc, Piece("inline", <<>>, <<>>, e.key,
                             <<convert_to_serializable(e.items[1])>>)))

section_head(res) ==
    <<Piece("heading", res.FieldName, <<>>, "", <<>>),
      Piece("definition", res.Definition, <<>>, "", <<>>),
      Piece("current", <<>>, <<>>, res.CurrentDataType, <<>>),
      Piece("recommended", <<>>, <<>>, res.RecommendedDataType, <<>>),
      Piece("category", <<>>, <<>>, res.DataCategory, <<>>),
      Piece("additional", <<>>, <<>>, "", <<>>)>>

Rule == Piece("rule", <<>>, <<>>, "", <<>>)

\* the sections, from the i-th profile on
RECURSIVE write_sections(_, _, _)
write_sections(results, i, acc) ==
    IF i > Len(results) THEN [ok |-> TRUE, pieces |-> acc]
    ELSE LET res == results[i]
             body == IF res.AdditionalInfo # <<>>
                     THEN write_info(res.AdditionalInfo, 1, <<>>)
                     ELSE [ok |-> TRUE,
                           pieces |-> <<Piece("none", <<>>, <<>>, "", <<>>)>>]
         IN  IF body.ok
             THEN write_sections(results, i + 1,
                    acc \o section_head(res) \o body.pieces \o <<Rule>>)
             ELSE [ok |-> FALSE, pieces |-> acc \o section_head(res) \o body.pieces]

table_of_contents(results) ==
    <<Piece("title", <<>>, <<>>, "", <<>>), Piece("contents", <<>>, <<>>, "", <<>>)>>
    \o toc_lines(results) \o <<Rule>>

generate_markdown_report(results) ==
    write_sections(results, 1, table_of_contents(results))

(***************************************************************************)
(* load_data and the mapping loop of main.                                 *)
(***************************************************************************)
\* whether load_data reads a file of this extension; it raises ValueError otherwise
load_data_ok(ext) ==
    lower(ext) \in {<<".", "c", "s", "v">>, <<".", "x", "l", "s">>,
                    <<".", "x", "l", "s", "x">>}

Range(s) == {s[i] : i \in DOMAIN s}

\* desc_mapping after the rows from the i-th on have been read
RECURSIVE read_rows(_, _, _, _, _)
read_rows(rows, i, field_col, value_col, mapping) ==
    IF i > Len(rows) THEN mapping
    ELSE LET field_name == rows[i][field_col]
             definition == rows[i][value_col]
         IN  read_rows(rows, i + 1, field_col, value_col,
                       [k \in DOMAIN mapping \cup {field_name} |->
                           IF k = field_name THEN definition ELSE mapping[k]])

\* the exception the mapping code of main raises on desc_df, "" when none
mapping_error(df, value_col) ==
    IF "Field" \notin Range(df.columns) /\ df.columns = <<>> THEN "IndexError"
    ELSE IF df.rows # <<>> /\ value_col \notin Range(df.columns) THEN "KeyError"
    ELSE ""

build_mapping(df, value_col) ==
    LET field_col == IF "Field" \notin Range(df.columns) THEN df.columns[1]
                     ELSE "Field"
    IN  read_rows(df.rows, 1, field_col, value_col, <<>>)

(***************************************************************************)
(* The inputs.                                                             *)
(***************************************************************************)
\* "user_id", "Order ID", "Unit Price"
Names ==
    {<<"u","s","e","r","_","i","d">>,
     <<"O","r","d","e","r"," ","I","D">>,
     <<"U","n","i","t"," ","P","r","i","c","e">>}

\* "The user."
SomeDefinition == <<"T","h","e"," ","u","s","e","r",".">>

\* {"a": 1}
JsonObject == Str(<<"{", "\"", "a", "\"", ":", " ", "1", "}">>)

\* " [1] " with its surrounding blanks
JsonArray == Str(<<" ", "[", "1", "]", " ">>)

\* {bad} is bracketed and does not parse
BadJson == Str(<<"{", "b", "a", "d", "}">>)

PlainText == Str(<<"a", "b", "c">>)

Series(dtype, values) == [dtype |-> dtype, values |-> values]

ShortSeqs(D) == UNION {[1..k -> D] : k \in 0..MaxShort}

\* the i-th filler cell of a run: 101, 102, ... or "va", "vb", ...
Filler(dtype, i) ==
    IF dtype = "object" THEN Str(<<"v", LowerChars[i]>>) ELSE Num(100 + i)

Run(dtype, n) == [i \in 1..n |-> Filler(dtype, i)]

\* run lengths around the distinct-value threshold, and around the sniffed prefix
LongRuns == (MaxRun - 2)..MaxRun

NumericRunLens == {0} \cup LongRuns

ObjectRunLens == {0, HeadLen - 1, HeadLen} \cup LongRuns

FloatCells == {Null, Num(0), Num(1), Num(2), Half(0)}

\* the ends of the 16-bit and 32-bit ranges and their outer neighbours
RangeCells ==
    {Num(0), SmallIntMin, SmallIntMax, Num(-32769), Num(32768),
     IntMin, IntMax, Big(-21474, -83649), Big(21474, 83648)}

ObjectCells == {Null, PlainText, JsonObject, JsonArray, BadJson, Obj(7)}

\* the columns analyze_column is checked on
Columns ==
    {Series("float64", Run("float64", n) \o s) :
        n \in NumericRunLens, s \in ShortSeqs(FloatCells)}
    \cup {Series("object", Run("object", n) \o s) :
        n \in ObjectRunLens, s \in ShortSeqs(ObjectCells)}
    \cup {Series("int64", s) : s \in ShortSeqs(RangeCells)}
    \cup {Series("bool", s) : s \in ShortSeqs({Num(0), Num(1)})}
    \cup {Series("datetime64[ns]", s) : s \in ShortSeqs({Null, Ts(1), Ts(2)})}
    \cup {Series("timedelta64[ns]", s) : s \in ShortSeqs({Null, Td(1)})}

\* the columns the data files of main are made of
LibrarySeries ==
    {Series("float64", <<Num(1), Num(0), Null>>),
     Series("object", <<PlainText, Null>>),
     Series("object", <<JsonObject>>),
     Series("datetime64[ns]", <<Ts(1)>>),
     Series("bool", <<Num(1), Num(1)>>)}

Column(name, series) == [name |-> name, series |-> series]

\* data frames of at most MaxCols columns with pairwise distinct names
DataFrames ==
    {d \in UNION {[1..k -> {Column(n, s) : n \in Names, s \in LibrarySeries}] :
                    k \in 0..MaxCols} :
        \A i, j \in DOMAIN d : i # j => d[i].name # d[j].name}

DescHeaders ==
    {<<"Field", "Description">>, <<"Name", "Description">>, <<>>}

DescTexts == {<<"u","s","e","r","_","i","d">>, SomeDefinition}

\* description frames of at most MaxDescRows rows
DescFrames ==
    UNION {{[columns |-> h, rows |-> r] :
               r \in UNION {[1..k -> [Range(h) -> DescTexts]] : k \in 0..MaxDescRows}} :
           h \in DescHeaders}

\* .csv, .XLSX and the unsupported .txt
Extensions ==
    {<<".", "c", "s", "v">>, <<".", "X", "L", "S", "X">>, <<".", "t", "x", "t">>}

(***************************************************************************)
(* The program.  pc is the statement main is at; "done" and "failed" are   *)
(* its two ends, and error names the exception that ended it.              *)
(***************************************************************************)
VARIABLES
    pc,
    data_file,          \* [ext, frame]: the data file on disk
    desc_file,          \* [ext, frame]: the description file on disk
    desc_column,        \* args.desc_column
    data,               \* the loaded data frame
    desc_df,            \* the loaded description frame
    desc_mapping,
    analysis_results,
    drawn,              \* per profiled column, the positions sample() took
    output,             \* the pieces written to the output file
    written,            \* whether the output file has been opened for writing
    error

vars == <<pc, data_file, desc_file, desc_column, data, desc_df, desc_mapping,
          analysis_results, drawn, output, written, error>>

NoFrame == [columns |-> <<>>, rows |-> <<>>]

Init ==
    /\ pc = "load_data"
    /\ data_file \in {[ext |-> e, frame |-> d] :
                        e \in Extensions \ {<<".", "X", "L", "S", "X">>},
                        d \in DataFrames}
    /\ desc_file \in {[ext |-> e, frame |-> d] :
                        e \in Extensions \ {<<".", "c", "s", "v">>},
                        d \in DescFrames}
    /\ desc_column \in {"Description", "Notes"}
    /\ data = <<>>
    /\ desc_df = NoFrame
    /\ desc_mapping = <<>>
    /\ analysis_results = <<>>
    /\ drawn = <<>>
    /\ output = <<>>
    /\ written = FALSE
    /\ error = ""

Fail(e) == pc' = "failed" /\ error' = e

\* data = load_data(args.data_file)
LoadData ==
    /\ pc = "load_data"
    /\ IF load_data_ok(data_file.ext)
       THEN /\ data' = data_file.frame
            /\ pc' = "load_desc"
            /\ UNCHANGED error
       ELSE Fail("ValueError") /\ UNCHANGED data
    /\ UNCHANGED <<data_file, desc_file, desc_column, desc_df, desc_mapping,
                   analysis_results, drawn, output, written>>

\* desc_df = load_data(args.desc_file)
LoadDesc ==
    /\ pc = "load_desc"
    /\ IF load_data_ok(desc_file.ext)
       THEN /\ desc_df' = desc_file.frame
            /\ pc' = "build_mapping"
            /\ UNCHANGED error
       ELSE Fail("ValueError") /\ UNCHANGED desc_df
    /\ UNCHANGED <<data_file, desc_file, desc_column, data, desc_mapping,
                   analysis_results, drawn, output, written>>

\* the choice of field_col and the loop over desc_df.iterrows()
BuildMapping ==
    /\ pc = "build_mapping"
    /\ IF mapping_error(desc_df, desc_column) = ""
       THEN /\ desc_mapping' = build_mapping(desc_df, desc_column)
            /\ pc' = "analyze"
            /\ UNCHANGED error
       ELSE Fail(mapping_error(desc_df, desc_column)) /\ UNCHANGED desc_mapping
    /\ UNCHANGED <<data_file, desc_file, desc_column, data, desc_df,
                   analysis_results, drawn, output, written>>

\* one turn of the loop over data.columns
AnalyzeColumn ==
    /\ pc = "analyze"
    /\ Len(analysis_results) < Len(data)
    /\ LET col == data[Len(analysis_results) + 1]
       IN  \E rnd \in Draws(col.series.values) :
             LET res == analyze_column(col.name, col.series, desc_mapping, rnd)
             IN  /\ analysis_results' = Append(analysis_results, res)
                 /\ drawn' = Append(drawn,
                       IF wants_samples(res.DataCategory, col.name)
                       THEN sample(col.series.values, rnd) ELSE <<>>)
    /\ UNCHANGED <<pc, data_file, desc_file, desc_column, data, desc_df,
                   desc_mapping, output, written, error>>

\* generate_markdown_report(analysis_results, args.output)
Render ==
    /\ pc = "analyze"
    /\ Len(analysis_results) = Len(data)
    /\ LET doc == generate_markdown_report(analysis_results)
       IN  /\ output' = doc.pieces
           /\ written' = TRUE
           /\ IF doc.ok THEN pc' = "done" /\ UNCHANGED error
              ELSE Fail("TypeError")
    /\ UNCHANGED <<data_file, desc_file, desc_column, data, desc_df,
                   desc_mapping, analysis_results, drawn>>

Next == LoadData \/ LoadDesc \/ BuildMapping \/ AnalyzeColumn \/ Render

Spec == Init /\ [][Next]_vars

(***************************************************************************)
(* analyze_column on its own: one column, one call.                        *)
(***************************************************************************)
InitColumn ==
    /\ pc = "analyze"
    /\ data \in {<<Column(n, s)>> : n \in Names, s \in Columns}
    /\ desc_mapping = [k \in {<<"u","s","e","r","_","i","d">>} |-> SomeDefinition]
    /\ data_file = [ext |-> <<".", "c", "s", "v">>, frame |-> data]
    /\ desc_file = [ext |-> <<".", "c", "s", "v">>, frame |-> NoFrame]
    /\ desc_column = "Description"
    /\ desc_df = NoFrame
    /\ analysis_results = <<>>
    /\ drawn = <<>>
    /\ output = <<>>
    /\ written = FALSE
    /\ error = ""

SpecColumn == InitColumn /\ [][AnalyzeColumn]_vars

(***************************************************************************)
(* What the properties below speak of: the i-th profiled column, its       *)
(* profile, and the positions drawn for its random sample.                 *)
(***************************************************************************)
Profiled == DOMAIN analysis_results

ColumnOf(i) == data[i].series

NameOf(i) == data[i].name

ProfileOf(i) == analysis_results[i]

\* the non-null cells of a column, as a set
NonNull(vals) == {vals[k] : k \in {j \in DOMAIN vals : vals[j].t # "null"}}

\* the number of non-null cells of a column
NonNullCount(vals) == Cardinality({j \in DOMAIN vals : vals[j].t # "null"})

Keys(info) == [k \in DOMAIN info |-> info[k].key]

HasKey(info, key) == \E k \in DOMAIN info : info[k].key = key

EntryAt(info, key) == info[CHOOSE k \in DOMAIN info : info[k].key = key]

IsNumeric(i) == ColumnOf(i).dtype \in {"int64", "float64", "bool"}

IsStringLike(i) == ColumnOf(i).dtype = "object"

Categories ==
    {"Nested JSON", "Boolean", "Discrete Numeric", "Quantitative (Discrete)",
     "Quantitative (Continuous)", "Categorical", "Text", "Datetime", "Unknown"}

(***************************************************************************)
(* C1.  Every profile carries one of the nine Data Categories, and its     *)
(* Recommended Data Type is the one fixed for that category: the column's  *)
(* current dtype for Nested JSON and Unknown, bool for Boolean, one of     *)
(* smallint / int / bigint for Discrete Numeric and Quantitative           *)
(* (Discrete), float for Quantitative (Continuous), category for           *)
(* Categorical, text for Text, datetime for Datetime.                      *)
(***************************************************************************)
C1_CategoryAndType ==
    \A i \in Profiled :
        LET cat == ProfileOf(i).DataCategory
            rec == ProfileOf(i).RecommendedDataType
        IN  /\ cat \in Categories
            /\ ProfileOf(i).CurrentDataType = ColumnOf(i).dtype
            /\ cat \in {"Nested JSON", "Unknown"} => rec = ColumnOf(i).dtype
            /\ cat = "Boolean" => rec = "bool"
            /\ cat \in {"Discrete Numeric", "Quantitative (Discrete)"}
                  => rec \in {"smallint", "int", "bigint"}
            /\ cat = "Quantitative (Continuous)" => rec = "float"
            /\ cat = "Categorical" => rec = "category"
            /\ cat = "Text" => rec = "text"
            /\ cat = "Datetime" => rec = "datetime"

\* a timedelta column has been profiled as Unknown, with its dtype passed through
C1_Witness ==
    \E i \in Profiled :
        /\ ColumnOf(i).dtype = "timedelta64[ns]"
        /\ ProfileOf(i).DataCategory = "Unknown"
        /\ ProfileOf(i).RecommendedDataType = "timedelta64[ns]"

(***************************************************************************)
(* C2.  A column with no non-null value is profiled as Unknown, and its    *)
(* Additional Info holds the 'Missing values' entry and nothing else.      *)
(***************************************************************************)
C2_EmptyColumnIsUnknown ==
    \A i \in Profiled :
        NonNullCount(ColumnOf(i).values) = 0
            => /\ ProfileOf(i).DataCategory = "Unknown"
               /\ Keys(ProfileOf(i).AdditionalInfo) = <<"Missing values">>

(***************************************************************************)
(* C3.  A string-like column is Nested JSON exactly when one of its first  *)
(* 10 non-null cells is a string that, stripped, is bracketed as {...} or  *)
(* [...] and parses as JSON; 'Sample JSON' is then the parsed value of the *)
(* first such cell and the recommended type is the column's dtype.  The    *)
(* other string-like columns are Categorical or Text.                      *)
(***************************************************************************)
IsJsonText(c) ==
    /\ c.t = "str"
    /\ LET x == strip(c.s)
       IN  /\ Len(x) >= 1
           /\ (x[1] = "{" /\ x[Len(x)] = "}") \/ (x[1] = "[" /\ x[Len(x)] = "]")
           /\ json_loads(x).ok

\* the ranks, among the non-null cells, of the JSON texts within the first HeadLen
JsonRanks(vals) ==
    LET nn == SelectSeq(vals, notna)
    IN  {k \in 1..Len(nn) : k <= HeadLen /\ IsJsonText(nn[k])}

C3_NestedJson ==
    \A i \in Profiled :
        IsStringLike(i) =>
            LET vals == ColumnOf(i).values
                nn == SelectSeq(vals, notna)
                ranks == JsonRanks(vals)
                p == ProfileOf(i)
            IN  /\ p.DataCategory = "Nested JSON" <=> ranks # {}
                /\ ranks = {} => p.DataCategory \in {"Categorical", "Text"}
                /\ ranks # {} =>
                     LET first == CHOOSE k \in ranks : \A j \in ranks : k <= j
                     IN  /\ p.RecommendedDataType = ColumnOf(i).dtype
                         /\ HasKey(p.AdditionalInfo, "Sample JSON")
                         /\ EntryAt(p.AdditionalInfo, "Sample JSON").items[1].v.s
                              = json_loads(strip(nn[first].s)).val

\* the only JSON text of the column is its HeadLen-th non-null cell, some cell
\* before it is null, and the column is Nested JSON
C3_Witness ==
    \E i \in Profiled :
        /\ IsStringLike(i)
        /\ JsonRanks(ColumnOf(i).values) = {HeadLen}
        /\ \E k \in DOMAIN ColumnOf(i).values : ColumnOf(i).values[k].t = "null"
        /\ ProfileOf(i).DataCategory = "Nested JSON"

(***************************************************************************)
(* C4.  A numeric column is Boolean (recommended bool) exactly when the    *)
(* set of its non-null values has two elements and lies within {0, 1};     *)
(* every other numeric column gets one of the three integrality            *)
(* categories.                                                             *)
(***************************************************************************)
C4_Boolean ==
    \A i \in Profiled :
        IsNumeric(i) =>
            LET U == NonNull(ColumnOf(i).values)
                p == ProfileOf(i)
            IN  /\ p.DataCategory = "Boolean"
                     <=> (Cardinality(U) = 2 /\ U \subseteq {Num(0), Num(1)})
                /\ p.DataCategory = "Boolean" => p.RecommendedDataType = "bool"
                /\ p.DataCategory # "Boolean"
                     => p.DataCategory \in {"Discrete Numeric",
                                            "Quantitative (Discrete)",
                                            "Quantitative (Continuous)"}

\* a numeric column whose values are 0 and 2 has been profiled as Discrete Numeric
C4_Witness ==
    \E i \in Profiled :
        /\ IsNumeric(i)
        /\ NonNull(ColumnOf(i).values) = {Num(0), Num(2)}
        /\ ProfileOf(i).DataCategory = "Discrete Numeric"

(***************************************************************************)
(* C5.  For a numeric column that is not Boolean and whose non-null values *)
(* are all integral, the recommended type is smallint when its values lie  *)
(* in [-32768, 32767], else int when they lie in [-2147483648,             *)
(* 2147483647], else bigint.  A column without any non-null value has no   *)
(* minimum and no maximum (pandas gives NaN), neither comparison holds,    *)
(* and its type is bigint.                                                 *)
(***************************************************************************)
Within(U, lo, hi) == U # {} /\ \A v \in U : ~Lt(v, lo) /\ ~Lt(hi, v)

C5_SmallestFit ==
    \A i \in Profiled :
        LET U == NonNull(ColumnOf(i).values)
            p == ProfileOf(i)
        IN  (/\ IsNumeric(i)
             /\ p.DataCategory # "Boolean"
             /\ \A v \in U : ~v.h)
            => p.RecommendedDataType =
                 IF Within(U, Num(-32768), Num(32767)) THEN "smallint"
                 ELSE IF Within(U, Big(-21474, -83648), Big(21474, 83647)) THEN "int"
                 ELSE "bigint"

\* a column spanning exactly [-32768, 32767] has been recommended smallint
C5_Witness ==
    \E i \in Profiled :
        /\ IsNumeric(i)
        /\ NonNull(ColumnOf(i).values) = {Num(-32768), Num(32767)}
        /\ ProfileOf(i).RecommendedDataType = "smallint"

(***************************************************************************)
(* C6.  The distinct-value threshold is strict: a string-like column that  *)
(* is not Nested JSON is Categorical (category) with fewer than 20         *)
(* distinct non-null values and Text (text) with 20 or more; a numeric     *)
(* column that is not Boolean and is all integral is Discrete Numeric with *)
(* fewer than 20 and Quantitative (Discrete) with 20 or more.              *)
(***************************************************************************)
C6_Threshold ==
    \A i \in Profiled :
        LET U == NonNull(ColumnOf(i).values)
            p == ProfileOf(i)
        IN  /\ (IsStringLike(i) /\ p.DataCategory # "Nested JSON") =>
                  IF Cardinality(U) < 20
                  THEN p.DataCategory = "Categorical"
                       /\ p.RecommendedDataType = "category"
                  ELSE p.DataCategory = "Text" /\ p.RecommendedDataType = "text"
            /\ (IsNumeric(i) /\ p.DataCategory # "Boolean" /\ \A v \in U : ~v.h) =>
                  IF Cardinality(U) < 20
                  THEN p.DataCategory = "Discrete Numeric"
                  ELSE p.DataCategory = "Quantitative (Discrete)"

\* a string-like column with exactly 20 distinct values has been profiled as Text
C6_Witness ==
    \E i \in Profiled :
        /\ IsStringLike(i)
        /\ Cardinality(NonNull(ColumnOf(i).values)) = 20
        /\ ProfileOf(i).DataCategory = "Text"

(***************************************************************************)
(* C7.  A column with a non-null value has a 'Random Samples' entry        *)
(* exactly when its category is not Categorical or its name contains "id"  *)
(* in any letter case; the entry then holds min(5, non-null count) cells,  *)
(* taken at pairwise distinct positions of the column, none of them null.  *)
(***************************************************************************)
NameHasId(name) ==
    \E k \in 1..(Len(name) - 1) : name[k] \in {"i", "I"} /\ name[k + 1] \in {"d", "D"}

C7_RandomSamples ==
    \A i \in Profiled :
        LET vals == ColumnOf(i).values
            p == ProfileOf(i)
            n == NonNullCount(vals)
        IN  n >= 1 =>
              /\ HasKey(p.AdditionalInfo, "Random Samples")
                   <=> (p.DataCategory # "Categorical" \/ NameHasId(NameOf(i)))
              /\ HasKey(p.AdditionalInfo, "Random Samples") =>
                   LET items == EntryAt(p.AdditionalInfo, "Random Samples").items
                   IN  /\ Len(items) = IF n < 5 THEN n ELSE 5
                       /\ Len(drawn[i]) = Len(items)
                       /\ \A a, b \in DOMAIN drawn[i] : a # b => drawn[i][a] # drawn[i][b]
                       /\ \A a \in DOMAIN drawn[i] :
                            /\ drawn[i][a] \in DOMAIN vals
                            /\ vals[drawn[i][a]].t # "null"
                            /\ items[a].v = vals[drawn[i][a]]

\* a Categorical column whose name holds "ID" in capitals has been sampled
C7_Witness ==
    \E i \in Profiled :
        /\ ProfileOf(i).DataCategory = "Categorical"
        /\ NameHasId(NameOf(i))
        /\ \A k \in 1..(Len(NameOf(i)) - 1) : <<NameOf(i)[k], NameOf(i)[k + 1]>> # <<"i", "d">>
        /\ HasKey(ProfileOf(i).AdditionalInfo, "Random Samples")

(***************************************************************************)
(* C8.  The keys of Additional Info follow the order Missing values,       *)
(* Sample JSON, Unique values, Summary, Unique count, Random Samples.      *)
(* 'Missing values' is always first and counts the null cells; 'Sample     *)
(* JSON' appears only for Nested JSON; 'Unique values' only for Discrete   *)
(* Numeric (ascending) and Categorical (in first-seen order), where it     *)
(* lists each distinct non-null value once; 'Summary' only for the two     *)
(* Quantitative categories; 'Unique count' only for Text, where it is the  *)
(* number of distinct non-null values.                                     *)
(***************************************************************************)
KeyOrder ==
    <<"Missing values", "Sample JSON", "Unique values", "Summary", "Unique count",
      "Random Samples">>

KeyRank(key) == CHOOSE r \in DOMAIN KeyOrder : KeyOrder[r] = key

\* the position of the first cell of vals equal to v
FirstSeen(vals, v) ==
    CHOOSE k \in DOMAIN vals : vals[k] = v /\ \A j \in 1..(k - 1) : vals[j] # v

C8_AdditionalInfo ==
    \A i \in Profiled :
        LET vals == ColumnOf(i).values
            U == NonNull(vals)
            p == ProfileOf(i)
            info == p.AdditionalInfo
        IN  /\ \A k \in DOMAIN info : info[k].key \in Range(KeyOrder)
            /\ \A a, b \in DOMAIN info : a < b => KeyRank(info[a].key) < KeyRank(info[b].key)
            /\ Len(info) >= 1
            /\ info[1].key = "Missing values"
            /\ info[1].items[1].v
                 = Num(Cardinality({k \in DOMAIN vals : vals[k].t = "null"}))
            /\ HasKey(info, "Sample JSON") => p.DataCategory = "Nested JSON"
            /\ HasKey(info, "Unique values")
                 => p.DataCategory \in {"Discrete Numeric", "Categorical"}
            /\ HasKey(info, "Summary")
                 => p.DataCategory \in {"Quantitative (Discrete)",
                                        "Quantitative (Continuous)"}
            /\ HasKey(info, "Unique count") => p.DataCategory = "Text"
            /\ HasKey(info, "Unique count")
                 => EntryAt(info, "Unique count").items[1].v = Num(Cardinality(U))
            /\ HasKey(info, "Unique values") =>
                 LET items == EntryAt(info, "Unique values").items
                 IN  /\ {items[k].v : k \in DOMAIN items} = U
                     /\ Len(items) = Cardinality(U)
                     /\ p.DataCategory = "Discrete Numeric" =>
                          \A a, b \in DOMAIN items : a < b => Lt(items[a].v, items[b].v)
                     /\ p.DataCategory = "Categorical" =>
                          \A a, b \in DOMAIN items :
                              a < b => FirstSeen(vals, items[a].v)
                                         < FirstSeen(vals, items[b].v)

\* a Discrete Numeric column whose first cell is not its smallest lists its
\* values in ascending order
C8_Witness ==
    \E i \in Profiled :
        /\ ProfileOf(i).DataCategory = "Discrete Numeric"
        /\ \E k \in DOMAIN ColumnOf(i).values :
              ColumnOf(i).values[k].t = "num"
              /\ ColumnOf(i).values[1].t = "num"
              /\ Lt(ColumnOf(i).values[k], ColumnOf(i).values[1])
        /\ HasKey(ProfileOf(i).AdditionalInfo, "Unique values")

(***************************************************************************)
(* C9.  Once generate_markdown_report has run on the profiles of a data    *)
(* file, no error has occurred and the output holds the title, a table of  *)
(* contents with one link per column in column order (label the field      *)
(* name, anchor the field name in lower case with "-" for each space),     *)
(* then one section per column in the same order.                          *)
(***************************************************************************)
PiecesOfKind(pieces, kind) == SelectSeq(pieces, LAMBDA x : x.kind = kind)

ExpectedAnchor(name) ==
    [k \in DOMAIN name |->
        IF name[k] = " " THEN "-"
        ELSE IF \E u \in DOMAIN UpperChars : UpperChars[u] = name[k]
             THEN LowerChars[CHOOSE u \in DOMAIN UpperChars : UpperChars[u] = name[k]]
             ELSE name[k]]

C9_ReportRendered ==
    written =>
        LET toc == PiecesOfKind(output, "toc")
            heads == PiecesOfKind(output, "heading")
        IN  /\ error = ""
            /\ pc = "done"
            /\ Len(output) >= 2
            /\ output[1].kind = "title"
            /\ output[2].kind = "contents"
            /\ Len(toc) = Len(data)
            /\ \A k \in DOMAIN toc :
                 /\ output[2 + k] = toc[k]
                 /\ toc[k].name = data[k].name
                 /\ toc[k].anchor = ExpectedAnchor(data[k].name)
            /\ Len(heads) = Len(data)
            /\ \A k \in DOMAIN heads : heads[k].name = data[k].name

(***************************************************************************)
(* C10.  When the description column named by the caller is not a column   *)
(* of the description file, the run never gets past the building of the    *)
(* Definition Map: no column is profiled and no output is written.         *)
(***************************************************************************)
C10_MissingColumnAborts ==
    desc_column \notin Range(desc_file.frame.columns)
        => /\ pc \notin {"analyze", "done"}
           /\ analysis_results = <<>>
           /\ ~written

=============================================================================
